---------------------------- MODULE Spec2Model ----------------------------
(***************************************************************************)
(* A model of src/lib/wordpress.ts: the WordPress REST client (wpFetch and *)
(* the seven fetch functions built on it) and the pure helpers             *)
(* groupSkillsByCategory, formatDate, stripHtml and parseTechs.            *)
(*                                                                         *)
(* JavaScript values are tagged records, so that undefined, null, numbers, *)
(* strings and arrays stay distinct values as they are in the program.     *)
(***************************************************************************)
EXTENDS Integers, Sequences, FiniteSets, TLC

VARIABLES
    env,      \* import.meta.env.WP_API_URL as the build provides it
    BASE,     \* the module constant BASE, resolved at module load
    calls,    \* the activations of the fetch functions, in call order
    arg,      \* the argument of the pure helper under examination
    ret,      \* what that helper gave: NotRun before it ran
    tz        \* the host's offset from UTC, in hours (read by Date)

vars == <<env, BASE, calls, arg, ret, tz>>

(***************************** bounds **************************************)
\* The number of fetch calls a behaviour makes (they overlap freely).
MaxCalls == 2

(************************* JavaScript values *******************************)
Undefined == [t |-> "undefined"]
Null == [t |-> "null"]
Num(n) == [t |-> "number", n |-> n]
Str(s) == [t |-> "string", s |-> s]
Arr(items) == [t |-> "array", items |-> items]
Thrown(name, message) == [t |-> "throw", name |-> name, message |-> message]
Pending == [t |-> "pending"]

\* a ?? b: b when a is null or undefined, a otherwise (also when a is '').
Coalesce(a, b) == IF a \in {Undefined, Null} THEN b ELSE a

\* A parameter default (perPage = 10): used when the argument is undefined.
Default(a, d) == IF a = Undefined THEN d ELSE a

Digit(d) == SubSeq("0123456789", d + 1, d + 1)

RECURSIVE NumStr(_)
\* String(n) for a non-negative integer n.
NumStr(n) == IF n < 10 THEN Digit(n) ELSE NumStr(n \div 10) \o Digit(n % 10)

\* posts[i] for a JavaScript array value: undefined past the end.
Index(a, i) == IF i + 1 <= Len(a.items) THEN a.items[i + 1] ELSE Undefined

(*************************** module load ***********************************)
Fallback == "https://tu-sitio.com/wp-json"

\* const BASE = import.meta.env.WP_API_URL ?? 'https://tu-sitio.com/wp-json'
LoadBASE(e) == Coalesce(e, Str(Fallback)).s

(****************************** wpFetch ************************************)
\* new URL(s) throws a TypeError unless s starts with a scheme; the bases
\* the model draws are https URLs or the empty string.
Parses(s) == Len(s) >= 8 /\ SubSeq(s, 1, 8) = "https://"

RECURSIVE FormEncode(_)
\* URLSearchParams' serialisation of a name or a value; of the characters
\* the module's parameters hold, only the comma is escaped.
FormEncode(s) ==
    IF s = "" THEN ""
    ELSE LET c == SubSeq(s, 1, 1)
         IN (IF c = "," THEN "%2C" ELSE c) \o FormEncode(SubSeq(s, 2, Len(s)))

RECURSIVE Query(_)
\* url.searchParams after set(k, v) for each entry, serialised; the module
\* never passes the same key twice, so set() appends.
Query(params) ==
    IF params = <<>> THEN ""
    ELSE FormEncode(params[1][1]) \o "=" \o FormEncode(params[1][2])
         \o (IF Len(params) > 1 THEN "&" ELSE "") \o Query(Tail(params))

\* url.toString() of line 83.
Href(base, endpoint, params) ==
    base \o endpoint \o (IF params = <<>> THEN "" ELSE "?" \o Query(params))

\* A variant of ResOk that takes every status below 500 for a success.
ResOkBelow500(status) == status < 500

\* res.ok: the status is in 200..299.
ResOk(status) == status >= 200 /\ status <= 299

\* The message of the Error of line 87.
ErrorMessage(status, endpoint) ==
    "WP API Error " \o NumStr(status) \o ": " \o endpoint

\* wpFetch up to its await (lines 80-85): build the URL, which may throw,
\* then send the one GET. Gives the fields of the activation it decides.
wpFetchBegin(base, endpoint, params) ==
    IF ~Parses(base \o endpoint)
    THEN [sent |-> 0, url |-> "", pc |-> "done",
          out |-> Thrown("TypeError", "Invalid URL")]
    ELSE [sent |-> 1, url |-> Href(base, endpoint, params), pc |-> "fetch",
          out |-> Pending]

\* A variant of wpFetchOnResponse that sends the request once more after a
\* status that is not ok, and throws only when the second one fails too.
wpFetchOnResponseRetry(call, status) ==
    IF ~ResOk(status)
    THEN IF call.sent < 2
         THEN [call EXCEPT !.sent = call.sent + 1]
         ELSE [call EXCEPT !.status = status, !.pc = "done",
                           !.out = Thrown("Error", ErrorMessage(status, call.endpoint))]
    ELSE [call EXCEPT !.status = status, !.pc = "json"]

\* wpFetch resumed with the response (line 87-88): throw on a status that is
\* not ok, else go on to read the body.
wpFetchOnResponse(call, status) ==
    IF ~ResOk(status)
    THEN [call EXCEPT !.status = status, !.pc = "done",
                      !.out = Thrown("Error", ErrorMessage(status, call.endpoint))]
    ELSE [call EXCEPT !.status = status, !.pc = "json"]

\* fetch() rejected (DNS, reset, ...): the await of line 83 throws and
\* nothing in the module catches it.
wpFetchOnReject(call) ==
    [call EXCEPT !.pc = "done", !.out = Thrown("TypeError", "fetch failed")]

(************************* the fetch functions *****************************)
Malformed == [t |-> "malformed"]

\* getPosts (lines 100-106)
getPostsRequest(perPage, page) ==
    [endpoint |-> "/wp/v2/posts",
     params |-> << <<"per_page", NumStr(Default(perPage, Num(10)).n)>>,
                   <<"page", NumStr(Default(page, Num(1)).n)>>,
                   <<"_embed", "1">> >>]

\* getPostBySlug (lines 112-115)
getPostBySlugRequest(slug) ==
    [endpoint |-> "/wp/v2/posts",
     params |-> << <<"slug", slug.s>>, <<"_embed", "1">> >>]

\* A variant of getPostBySlugResult without the ?? null: posts[0] as it is.
getPostBySlugResultNoNull(posts) == Index(posts, 0)

\* getPostBySlug (line 116): posts[0] ?? null
getPostBySlugResult(posts) == Coalesce(Index(posts, 0), Null)

\* A variant of getLatestPostsRequest without its own default: an absent
\* count falls through to getPosts' default of 10.
getLatestPostsRequestNoDefault(count) == getPostsRequest(count, Num(1))

\* getLatestPosts (lines 122-124): getPosts(count, 1) with count = 3
getLatestPostsRequest(count) == getPostsRequest(Default(count, Num(3)), Num(1))

\* getCategories (line 130)
getCategoriesRequest ==
    [endpoint |-> "/wp/v2/categories", params |-> << <<"hide_empty", "true">> >>]

\* getProjects (lines 142-146)
getProjectsRequest ==
    [endpoint |-> "/wp/v2/portfolio",
     params |-> << <<"per_page", "100">>, <<"_fields", "id,title,acf">>,
                   <<"acf_format", "standard">> >>]

\* getSkills (lines 158-161)
getSkillsRequest ==
    [endpoint |-> "/wp/v2/skill",
     params |-> << <<"per_page", "100">>, <<"_fields", "id,title,acf">> >>]

\* getExperiences (lines 184-189)
getExperiencesRequest ==
    [endpoint |-> "/wp/v2/experience",
     params |-> << <<"per_page", "100">>, <<"_fields", "id,title,acf">>,
                   <<"orderby", "date">>, <<"order", "desc">> >>]

\* The request a call of fn with args makes.
RequestOf(fn, args) ==
    CASE fn = "getPosts" -> getPostsRequest(args[1], args[2])
      [] fn = "getPostBySlug" -> getPostBySlugRequest(args[1])
      [] fn = "getLatestPosts" -> getLatestPostsRequest(args[1])
      [] fn = "getCategories" -> getCategoriesRequest
      [] fn = "getProjects" -> getProjectsRequest
      [] fn = "getSkills" -> getSkillsRequest
      [] fn = "getExperiences" -> getExperiencesRequest

\* What the function makes of the decoded body: getPostBySlug takes the first
\* post, every other function returns the array as it came.
ResultOf(fn, data) ==
    IF fn = "getPostBySlug" THEN getPostBySlugResult(data) ELSE data

\* res.json() settled (line 88) and the function's own continuation ran.
wpFetchOnBody(call, body) ==
    IF body = Malformed
    THEN [call EXCEPT !.body = body, !.pc = "done",
                      !.out = Thrown("SyntaxError", "Unexpected token")]
    ELSE [call EXCEPT !.body = body, !.pc = "done",
                      !.out = ResultOf(call.fn, body)]

\* A variant of Resume in which a call that throws takes the calls still
\* in flight down with it (one abort signal shared by all requests).
ResumeSharedAbort(cs, c, rec) ==
    IF rec.out.t = "throw"
    THEN [d \in DOMAIN cs |->
            IF d = c THEN rec
            ELSE IF cs[d].pc # "done"
                 THEN [cs[d] EXCEPT !.pc = "done", !.out = rec.out]
                 ELSE cs[d]]
    ELSE [cs EXCEPT ![c] = rec]

\* A promise settles its own activation and no other.
Resume(cs, c, rec) == [cs EXCEPT ![c] = rec]

\* A fresh activation: the synchronous part of the call runs at once.
Activation(fn, args) ==
    LET req == RequestOf(fn, args)
        b == wpFetchBegin(BASE, req.endpoint, req.params)
    IN [fn |-> fn, args |-> args, endpoint |-> req.endpoint,
        url |-> b.url, sent |-> b.sent, pc |-> b.pc,
        status |-> 0, body |-> Undefined, out |-> b.out]

(************************ what the model draws *****************************)
\* getPosts(), getPosts(3, 1), getPosts(5, 2)
PostsArgs == {<<Undefined, Undefined>>, <<Num(3), Num(1)>>, <<Num(5), Num(2)>>}
\* getLatestPosts(), getLatestPosts(5)
Counts == {Undefined, Num(5)}
Slugs == {Str("hola"), Str("adios")}
Statuses == {200, 404, 500}
Post1 == [t |-> "object", id |-> 1, slug |-> "hola"]
Post2 == [t |-> "object", id |-> 2, slug |-> "adios"]
Bodies == {Malformed, Arr(<<>>), Arr(<<Post1>>), Arr(<<Post2, Post1>>)}
Envs == {Undefined, Str("https://cms.example.org/wp-json"), Str("")}

NotRun == [t |-> "notrun"]

(****************************** actions ************************************)
Invoke(fn, args) ==
    /\ Len(calls) < MaxCalls
    /\ calls' = Append(calls, Activation(fn, args))
    /\ UNCHANGED <<env, BASE, arg, ret, tz>>

getPosts == \E a \in PostsArgs : Invoke("getPosts", a)

getPostBySlug == \E slug \in Slugs : Invoke("getPostBySlug", <<slug>>)

getLatestPosts == \E count \in Counts : Invoke("getLatestPosts", <<count>>)

getCategories == Invoke("getCategories", <<>>)

getProjects == Invoke("getProjects", <<>>)

getSkills == Invoke("getSkills", <<>>)

getExperiences == Invoke("getExperiences", <<>>)

\* The server's status line arrives for one of the calls in flight.
Respond ==
    \E c \in 1..Len(calls), status \in Statuses :
        /\ calls[c].pc = "fetch"
        /\ calls' = Resume(calls, c, wpFetchOnResponse(calls[c], status))
        /\ UNCHANGED <<env, BASE, arg, ret, tz>>

\* The transport fails for one of the calls in flight.
Reject ==
    \E c \in 1..Len(calls) :
        /\ calls[c].pc = "fetch"
        /\ calls' = Resume(calls, c, wpFetchOnReject(calls[c]))
        /\ UNCHANGED <<env, BASE, arg, ret, tz>>

\* The body of an ok response has been read and decoded.
Body ==
    \E c \in 1..Len(calls), body \in Bodies :
        /\ calls[c].pc = "json"
        /\ calls' = Resume(calls, c, wpFetchOnBody(calls[c], body))
        /\ UNCHANGED <<env, BASE, arg, ret, tz>>

Init ==
    /\ env \in Envs
    /\ BASE = LoadBASE(env)
    /\ calls = <<>>
    /\ arg = Undefined
    /\ ret = NotRun
    /\ tz = 0

Next ==
    \/ getPosts
    \/ getPostBySlug
    \/ getLatestPosts
    \/ getCategories
    \/ getProjects
    \/ getSkills
    \/ getExperiences
    \/ Respond
    \/ Reject
    \/ Body

Spec == Init /\ [][Next]_vars

(******************** claims about the fetch functions *********************)
Ids == 1..Len(calls)

IsDone(c) == calls[c].pc = "done"

RECURSIVE Occurs(_, _)
\* The text sub occurs somewhere in the text s.
Occurs(sub, s) ==
    IF Len(s) < Len(sub) THEN FALSE
    ELSE SubSeq(s, 1, Len(sub)) = sub \/ Occurs(sub, SubSeq(s, 2, Len(s)))

\* The endpoint each function asks for, as the claims name it.
EndpointNamed(fn) ==
    CASE fn \in {"getPosts", "getPostBySlug", "getLatestPosts"} -> "/wp/v2/posts"
      [] fn = "getCategories" -> "/wp/v2/categories"
      [] fn = "getProjects" -> "/wp/v2/portfolio"
      [] fn = "getSkills" -> "/wp/v2/skill"
      [] fn = "getExperiences" -> "/wp/v2/experience"

StatusText(status) ==
    CASE status = 200 -> "200" [] status = 404 -> "404" [] status = 500 -> "500"

\* C1: whenever the response of a call has a status outside 200..299, the
\* call has failed with an Error whose message carries that status code and
\* the endpoint path of the function; it holds no value in its place (no
\* null from getPostBySlug, no empty array).
C1_NonOkStatusFails ==
    \A c \in Ids :
        (calls[c].status # 0 /\ calls[c].status \notin 200..299) =>
            /\ IsDone(c)
            /\ calls[c].out.t = "throw"
            /\ calls[c].out.name = "Error"
            /\ Occurs(StatusText(calls[c].status), calls[c].out.message)
            /\ Occurs(EndpointNamed(calls[c].fn), calls[c].out.message)

\* A getPosts() call answered 404 has failed with the status and the path.
C1_Witness ==
    \E c \in Ids :
        /\ calls[c].fn = "getPosts"
        /\ calls[c].status = 404
        /\ calls[c].out = Thrown("Error", "WP API Error 404: /wp/v2/posts")

\* C2 as stated: every call issues exactly one request over its lifetime,
\* whether it ends in a value or in an error: never a second one, and no
\* call is over without having sent one.
C2_ExactlyOneRequest ==
    \A c \in Ids : calls[c].sent <= 1 /\ (IsDone(c) => calls[c].sent = 1)

\* C2 as amended: no call ever issues a second request (no retry after a
\* status that is not ok or a transport failure); a call whose URL parses
\* has issued exactly one from its start (none answered from a cache), and
\* the only call that issues none is one whose new URL() threw, which is
\* over with that TypeError.
C2_AtMostOneRequest ==
    \A c \in Ids :
        /\ calls[c].sent <= 1
        /\ Parses(BASE \o EndpointNamed(calls[c].fn)) => calls[c].sent = 1
        /\ calls[c].sent = 0 =>
              /\ IsDone(c)
              /\ calls[c].out = Thrown("TypeError", "Invalid URL")
              /\ ~Parses(BASE \o EndpointNamed(calls[c].fn))

\* Calls that ended in an error after one request each: one on a status
\* that is not ok, one on a transport failure.
C2_Witness ==
    \E c, d \in Ids :
        /\ IsDone(c) /\ calls[c].status = 500 /\ calls[c].sent = 1
        /\ IsDone(d) /\ calls[d].status = 0 /\ calls[d].sent = 1
        /\ calls[d].out = Thrown("TypeError", "fetch failed")

LatestAsPosts(count) == IF count = Undefined THEN <<Num(3), Num(1)>> ELSE <<count, Num(1)>>

\* C4: getLatestPosts(n) is observationally getPosts(n, 1), and
\* getLatestPosts() is getPosts(3, 1): the same request (/wp/v2/posts with
\* per_page = n, page = 1, _embed = 1) and, for the same response, the same
\* posts or the same error.
C4_LatestIsPosts ==
    \A c \in Ids :
        calls[c].fn = "getLatestPosts" =>
            /\ calls[c].endpoint = "/wp/v2/posts"
            /\ calls[c].sent = 1 =>
                  calls[c].url = BASE \o "/wp/v2/posts?per_page="
                      \o (IF calls[c].args[1] = Undefined THEN "3" ELSE "5")
                      \o "&page=1&_embed=1"
            /\ \A d \in Ids :
                  (calls[d].fn = "getPosts" /\ calls[d].args = LatestAsPosts(calls[c].args[1])) =>
                      /\ calls[d].url = calls[c].url
                      /\ calls[d].sent = calls[c].sent
                      /\ (calls[d].pc = calls[c].pc /\ calls[d].status = calls[c].status
                            /\ calls[d].body = calls[c].body /\ calls[d].out.t = calls[c].out.t)
                         => calls[d].out = calls[c].out

\* getLatestPosts() beside getPosts(3, 1), both answered with the same two
\* posts, and both requests sent.
C4_Witness ==
    \E c, d \in Ids :
        /\ calls[c].fn = "getLatestPosts" /\ calls[c].args = <<Undefined>>
        /\ calls[d].fn = "getPosts" /\ calls[d].args = <<Num(3), Num(1)>>
        /\ calls[c].out = Arr(<<Post2, Post1>>)
        /\ calls[d].out = Arr(<<Post2, Post1>>)
        /\ calls[c].url = "https://tu-sitio.com/wp-json/wp/v2/posts?per_page=3&page=1&_embed=1"

\* Two calls of the same function with the same arguments that got the same
\* response ended the same way, whatever else was in flight.
OwnResponseDecides ==
    \A c, d \in Ids :
        (/\ IsDone(c) /\ IsDone(d)
         /\ calls[c].fn = calls[d].fn /\ calls[c].args = calls[d].args
         /\ calls[c].status = calls[d].status /\ calls[c].body = calls[d].body
         /\ (calls[c].out.t = "throw") = (calls[d].out.t = "throw")
         /\ calls[c].status # 0)
        => calls[c].out = calls[d].out

\* A step settles or advances one call and leaves every other call, and the
\* base URL, as they were.
OneCallPerStep ==
    /\ BASE' = BASE
    /\ \A c, d \in Ids :
          (c # d /\ calls'[c] # calls[c]) => calls'[d] = calls[d]

\* C6: calls in flight together are independent: in any order of arrival a
\* step changes one call only (the failure of one never fails or alters
\* another), a call's outcome is decided by its own request and response,
\* and the base URL is never modified.
C6_Independent == []OwnResponseDecides /\ [][OneCallPerStep]_vars

\* The second call has failed while the first is still in flight, untouched;
\* the two were sent to the same base URL.
C6_Witness ==
    /\ Len(calls) = 2
    /\ calls[1].pc = "fetch" /\ calls[1].out = Pending
    /\ IsDone(2) /\ calls[2].out.t = "throw" /\ calls[2].status = 404
    /\ BASE = "https://cms.example.org/wp-json"

(**************************** text helpers *********************************)
Char(s, i) == SubSeq(s, i, i)

\* The white space String.prototype.trim removes, as far as the model's
\* texts hold it.
WhiteSpace == {" ", "\t", "\n", "\r"}

RECURSIVE TrimStart(_)
TrimStart(s) ==
    IF s # "" /\ Char(s, 1) \in WhiteSpace THEN TrimStart(SubSeq(s, 2, Len(s))) ELSE s

RECURSIVE TrimEnd(_)
TrimEnd(s) ==
    IF s # "" /\ Char(s, Len(s)) \in WhiteSpace
    THEN TrimEnd(SubSeq(s, 1, Len(s) - 1)) ELSE s

\* String.prototype.trim
Trim(s) == TrimEnd(TrimStart(s))

RECURSIVE Texts(_, _)
\* Every text of at most n characters over the alphabet.
Texts(alphabet, n) ==
    IF n = 0 THEN {""}
    ELSE LET shorter == Texts(alphabet, n - 1)
         IN shorter \cup {t \o c : t \in shorter, c \in alphabet}

(****************************** stripHtml **********************************)
\* The length of the texts stripHtml is given.
MaxHtmlLen == 5

RECURSIVE IndexOfFrom(_, _, _)
\* The first position at or after i where s holds c; 0 when there is none.
IndexOfFrom(s, c, i) ==
    IF i > Len(s) THEN 0
    ELSE IF Char(s, i) = c THEN i ELSE IndexOfFrom(s, c, i + 1)

RECURSIVE RunOfNeither(_, _)
\* The first position at or after i that holds '<' or '>'; 0 when none.
RunOfNeither(s, i) ==
    IF i > Len(s) THEN 0
    ELSE IF Char(s, i) \in {"<", ">"} THEN i ELSE RunOfNeither(s, i + 1)

\* A variant of TagMatchEnd for the pattern /<[^<>]*>/, which lets no '<'
\* into a tag.
TagMatchEndNoLt(s, i) ==
    IF Char(s, i) # "<" THEN 0
    ELSE LET j == RunOfNeither(s, i + 1)
         IN IF j # 0 /\ Char(s, j) = ">" THEN j ELSE 0

\* A match of /<[^>]*>/ starting at position i: the position of its closing
\* '>' (the first '>' after the '<'; [^>] takes a '<' too), or 0 for none.
TagMatchEnd(s, i) ==
    IF Char(s, i) # "<" THEN 0 ELSE IndexOfFrom(s, ">", i + 1)

RECURSIVE ReplaceTags(_, _)
\* html.replace(/<[^>]*>/g, ''): one pass from the left; after a match it
\* goes on behind the match, where there is none it keeps the character.
ReplaceTags(s, i) ==
    IF i > Len(s) THEN ""
    ELSE LET e == TagMatchEnd(s, i)
         IN IF e # 0 THEN ReplaceTags(s, e + 1)
            ELSE Char(s, i) \o ReplaceTags(s, i + 1)

\* stripHtml (lines 212-214)
stripHtml(html) == Trim(ReplaceTags(html, 1))

HtmlAlphabet == {"<", ">", " ", "a", "b"}

HtmlInputs ==
    Texts(HtmlAlphabet, MaxHtmlLen)
        \cup {"<p>Hello <b>World</b></p>", "<<b>b>", "<a<b>c>", " <br/>\n x <i>y</i>\t",
              "a < b and c > d", "<img alt=\"a>b\">"}

InitStrip ==
    /\ env = Undefined
    /\ BASE = LoadBASE(env)
    /\ calls = <<>>
    /\ arg \in {Str(t) : t \in HtmlInputs}
    /\ ret = NotRun
    /\ tz = 0

CallStripHtml ==
    /\ ret = NotRun
    /\ ret' = Str(stripHtml(arg.s))
    /\ UNCHANGED <<env, BASE, calls, arg, tz>>

SpecStrip == InitStrip /\ [][CallStripHtml]_vars

\* Position i of s lies in a tag: some '<' at or before i has no '>' between
\* it and i, and a '>' follows at or after i.
InTag(s, i) ==
    \E j \in 1..i :
        /\ Char(s, j) = "<"
        /\ \A m \in j..(i - 1) : Char(s, m) # ">"
        /\ \E k \in i..Len(s) : Char(s, k) = ">"

\* t is s without the positions in tags and without the white space at its
\* two ends: the characters outside tags, all of them and in their order.
IsOutsideText(t, s) ==
    LET keep == {i \in 1..Len(s) : ~InTag(s, i)}
        solid == {i \in keep : Char(s, i) \notin WhiteSpace}
        span == {i \in keep : \E a, b \in solid : a <= i /\ i <= b}
    IN /\ Len(t) = Cardinality(span)
       /\ \A i \in span : Char(t, Cardinality({x \in span : x <= i})) = Char(s, i)

\* C9: stripHtml removes every tag in its one pass and trims: no '<' of the
\* result has a '>' anywhere after it, the result has no white space at
\* either end, it is the characters outside tags in their order, and
\* stripHtml leaves its own result unchanged.
C9_StripHtml ==
    ret # NotRun =>
        LET r == ret.s
        IN /\ \A i \in 1..Len(r) : \A j \in (i + 1)..Len(r) :
                 ~(Char(r, i) = "<" /\ Char(r, j) = ">")
           /\ r # "" => (Char(r, 1) \notin WhiteSpace /\ Char(r, Len(r)) \notin WhiteSpace)
           /\ IsOutsideText(r, arg.s)
           /\ stripHtml(r) = r
           /\ arg.s = "<p>Hello <b>World</b></p>" => r = "Hello World"

\* A tag opened twice, '<<b>b>', has been stripped to 'b>'.
C9_Witness == arg = Str("<<b>b>") /\ ret = Str("b>")

(****************************** parseTechs *********************************)
\* The length of the texts parseTechs is given.
MaxTechLen == 5

RECURSIVE Split(_, _)
\* s.split(sep) for a one-character separator: the pieces between the
\* separators, empty ones included; '' gives [''].
Split(s, sep) ==
    LET i == IndexOfFrom(s, sep, 1)
    IN IF i = 0 THEN <<s>>
       ELSE <<SubSeq(s, 1, i - 1)>> \o Split(SubSeq(s, i + 1, Len(s)), sep)

\* .map(t => t.trim())
MapTrim(ts) == [k \in 1..Len(ts) |-> Trim(ts[k])]

\* A variant of FilterTruthy that keeps every token.
FilterNothing(ts) == ts

\* .filter(Boolean) on strings: '' is the one falsy string.
FilterTruthy(ts) == SelectSeq(ts, LAMBDA t : t # "")

\* parseTechs (lines 217-219): techString?.split(',')... is undefined for a
\* null or undefined techString without running the chain, and ?? [] then
\* gives the empty array.
parseTechs(techString) ==
    IF techString \in {Undefined, Null} THEN Arr(<<>>)
    ELSE Arr(FilterTruthy(MapTrim(Split(techString.s, ","))))

TechAlphabet == {",", " ", "a", "b"}

TechInputs ==
    {Undefined, Null}
        \cup {Str(t) : t \in Texts(TechAlphabet, MaxTechLen)}
        \cup {Str("React, Node ,  ,TypeScript"), Str(" Vue.js,\tNode JS \n,,"),
              Str("Astro")}

InitTechs ==
    /\ env = Undefined
    /\ BASE = LoadBASE(env)
    /\ calls = <<>>
    /\ arg \in TechInputs
    /\ ret = NotRun
    /\ tz = 0

CallParseTechs ==
    /\ ret = NotRun
    /\ ret' = parseTechs(arg)
    /\ UNCHANGED <<env, BASE, calls, arg, tz>>

SpecTechs == InitTechs /\ [][CallParseTechs]_vars

\* The comma-separated token of s that starts behind position a (a comma, or
\* 0 for the start) and runs up to the next comma or the end, without the
\* white space at its two ends.
TokenBehind(s, a) ==
    LET stops == {i \in (a + 1)..Len(s) : Char(s, i) = ","} \cup {Len(s) + 1}
        b == CHOOSE i \in stops : \A x \in stops : i <= x
        solid == {i \in (a + 1)..(b - 1) : Char(s, i) \notin WhiteSpace}
    IN IF solid = {} THEN ""
       ELSE SubSeq(s, CHOOSE i \in solid : \A x \in solid : i <= x,
                      CHOOSE i \in solid : \A x \in solid : i >= x)

\* out is the tokens of s in their order, the empty ones left out.
IsTokensOf(out, s) ==
    LET starts == {0} \cup {i \in 1..Len(s) : Char(s, i) = ","}
        full == {a \in starts : TokenBehind(s, a) # ""}
    IN /\ Len(out) = Cardinality(full)
       /\ \A a \in full : out[Cardinality({x \in full : x <= a})] = TokenBehind(s, a)

\* C8: parseTechs gives the comma-separated tokens of its input in their
\* order, each trimmed, the ones empty after trimming dropped; the empty
\* array for '', null and undefined; no token it gives is empty, starts or
\* ends with white space, or holds a comma.
C8_ParseTechs ==
    ret # NotRun =>
        /\ ret.t = "array"
        /\ arg \in {Undefined, Null, Str("")} => ret.items = <<>>
        /\ arg.t = "string" => IsTokensOf(ret.items, arg.s)
        /\ \A k \in 1..Len(ret.items) :
              LET t == ret.items[k]
              IN /\ t # ""
                 /\ Char(t, 1) \notin WhiteSpace
                 /\ Char(t, Len(t)) \notin WhiteSpace
                 /\ \A i \in 1..Len(t) : Char(t, i) # ","
        /\ arg = Str("React, Node ,  ,TypeScript") =>
              ret.items = <<"React", "Node", "TypeScript">>

\* The spec's example has been parsed: the blank third token is gone.
C8_Witness ==
    /\ arg = Str("React, Node ,  ,TypeScript")
    /\ ret = Arr(<<"React", "Node", "TypeScript">>)

(************************ groupSkillsByCategory ****************************)
\* The number of skills groupSkillsByCategory is given.
MaxSkills == 3

Digits == {"0", "1", "2", "3", "4", "5", "6", "7", "8", "9"}

RECURSIVE DigitsValue(_)
\* The number a text of digits writes.
DigitsValue(s) ==
    IF s = "" THEN 0
    ELSE 10 * DigitsValue(SubSeq(s, 1, Len(s) - 1))
         + (CHOOSE d \in 0..9 : Digit(d) = Char(s, Len(s)))

\* A property key that is an array index: the canonical decimal text of an
\* integer below 2^32 - 1 (here: of at most nine digits, which all are; the
\* model's labels have at most two). An object lists these keys first, in
\* ascending order, whenever they were created.
IsArrayIndex(k) ==
    /\ k # ""
    /\ Len(k) <= 9
    /\ \A i \in 1..Len(k) : Char(k, i) \in Digits
    /\ (Len(k) > 1 => Char(k, 1) # "0")

\* The names every object literal inherits from Object.prototype.
ObjectPrototypeKeys ==
    {"constructor", "__proto__", "hasOwnProperty", "isPrototypeOf",
     "propertyIsEnumerable", "toString", "toLocaleString", "valueOf",
     "__defineGetter__", "__defineSetter__", "__lookupGetter__", "__lookupSetter__"}

\* The {} the reduce starts from: no own keys.
EmptyObject == [t |-> "object", keys |-> <<>>, slot |-> <<>>]

\* Where own key k is at in obj.keys; 0 when obj has no own key k.
KeyAt(obj, k) ==
    IF \E i \in 1..Len(obj.keys) : obj.keys[i] = k
    THEN CHOOSE i \in 1..Len(obj.keys) : obj.keys[i] = k
    ELSE 0

Inherited == [t |-> "inherited"]

\* acc[cat] read: the own property, else what Object.prototype holds under
\* that name (a function or an object, never null), else undefined.
Get(obj, k) ==
    IF KeyAt(obj, k) # 0 THEN Arr(obj.slot[KeyAt(obj, k)])
    ELSE IF k \in ObjectPrototypeKeys THEN Inherited
    ELSE Undefined

\* Where a new own key k comes to stand in the object's key order (the order
\* Object.keys, Object.entries and for-in list): an array index before every
\* larger index and every other key, any other key at the end.
PlaceOf(obj, k) ==
    IF IsArrayIndex(k)
    THEN 1 + Cardinality({i \in 1..Len(obj.keys) :
                 IsArrayIndex(obj.keys[i]) /\ DigitsValue(obj.keys[i]) < DigitsValue(k)})
    ELSE Len(obj.keys) + 1

InsertAt(seq, i, x) == SubSeq(seq, 1, i - 1) \o <<x>> \o SubSeq(seq, i, Len(seq))

\* acc[cat] = [] for a key the object does not own yet.
Create(obj, k) ==
    [obj EXCEPT !.keys = InsertAt(obj.keys, PlaceOf(obj, k), k),
                !.slot = InsertAt(obj.slot, PlaceOf(obj, k), <<>>)]

\* The reducer (lines 168-172): cat = skill.acf.category ?? 'Otros';
\* (acc[cat] ??= []).push(skill). The push throws a TypeError when acc[cat]
\* is an inherited member, which ??= leaves as it is.
Reducer(acc, skill) ==
    LET cat == Coalesce(skill.category, Str("Otros")).s
        cur == Get(acc, cat)
        obj == IF cur = Undefined THEN Create(acc, cat) ELSE acc
    IN IF cur = Inherited
       THEN Thrown("TypeError", "acc[cat].push is not a function")
       ELSE [obj EXCEPT !.slot[KeyAt(obj, cat)] = Append(@, skill)]

RECURSIVE Reduce(_, _)
\* skills.reduce(reducer, acc); an exception ends it.
Reduce(acc, skills) ==
    IF skills = <<>> \/ acc.t = "throw" THEN acc
    ELSE Reduce(Reducer(acc, Head(skills)), Tail(skills))

\* groupSkillsByCategory (lines 167-173)
groupSkillsByCategory(skills) == Reduce(EmptyObject, skills)

\* skill.acf.category as the API may deliver it: absent, null, empty, or a
\* label.
Categories ==
    {Undefined, Null, Str(""), Str("Otros"), Str("Frontend"), Str("Backend"),
     Str("10"), Str("2"), Str("constructor")}

RECURSIVE SkillLists(_)
\* The lists of at most n skills; a skill's id is its place in the list.
SkillLists(n) ==
    IF n = 0 THEN {<<>>}
    ELSE LET shorter == SkillLists(n - 1)
         IN shorter \cup {Append(l, [id |-> Len(l) + 1, category |-> c]) :
                             l \in {x \in shorter : Len(x) = n - 1}, c \in Categories}

InitGroup ==
    /\ env = Undefined
    /\ BASE = LoadBASE(env)
    /\ calls = <<>>
    /\ arg \in {Arr(l) : l \in SkillLists(MaxSkills)}
    /\ ret = NotRun
    /\ tz = 0

CallGroupSkillsByCategory ==
    /\ ret = NotRun
    /\ ret' = groupSkillsByCategory(arg.items)
    /\ UNCHANGED <<env, BASE, calls, arg, tz>>

SpecGroup == InitGroup /\ [][CallGroupSkillsByCategory]_vars

\* The label a skill is grouped by: its category, the default for none.
LabelOf(skill) == IF skill.category \in {Undefined, Null} THEN "Otros" ELSE skill.category.s

\* C5: for every list of skills, whatever their labels, the result is a
\* partition of it: the group labels are the labels of the input in order of
\* first occurrence, each group holds exactly the skills of its label in
\* their input order, and so every skill is in exactly one group.
C5_Partition ==
    ret # NotRun =>
        LET skills == arg.items
            first(l) == CHOOSE i \in 1..Len(skills) :
                            /\ LabelOf(skills[i]) = l
                            /\ \A j \in 1..(i - 1) : LabelOf(skills[j]) # l
        IN /\ ret.t = "object"
           /\ {ret.keys[i] : i \in 1..Len(ret.keys)} = {LabelOf(skills[i]) : i \in 1..Len(skills)}
           /\ \A i, j \in 1..Len(ret.keys) :
                 i < j => first(ret.keys[i]) < first(ret.keys[j])
           /\ \A i \in 1..Len(ret.keys) :
                 ret.slot[i] = SelectSeq(skills, LAMBDA sk : LabelOf(sk) = ret.keys[i])
           /\ \A n \in 1..Len(skills) :
                 Cardinality({<<i, k>> \in (1..Len(ret.keys)) \X (1..Len(skills)) :
                                 k <= Len(ret.slot[i]) /\ ret.slot[i][k] = skills[n]}) = 1

\* The skills with no label: category missing, null, or empty.
LacksLabel(skill) == skill.category \in {Undefined, Null, Str("")}

\* C7: in a grouping, every skill lacking a category label (missing, null or
\* empty) is in the group "Otros" and under no other key, and a skill that
\* has a label is in the group "Otros" only if its label is "Otros".
C7_DefaultGroup ==
    (ret # NotRun /\ ret.t = "object") =>
        \A n \in 1..Len(arg.items) : \A i \in 1..Len(ret.keys) :
            LET skill == arg.items[n]
                inGroup == \E k \in 1..Len(ret.slot[i]) : ret.slot[i][k] = skill
            IN /\ LacksLabel(skill) => (inGroup <=> ret.keys[i] = "Otros")
               /\ (~LacksLabel(skill) /\ inGroup /\ ret.keys[i] = "Otros")
                     => skill.category = Str("Otros")

(******************************* formatDate ********************************)
NaN == [t |-> "NaN"]

Upper == "ABCDEFGHIJKLMNOPQRSTUVWXYZ"

Lower == "abcdefghijklmnopqrstuvwxyz"

\* One character of String.prototype.toLowerCase (the model's texts are
\* ASCII).
LowerChar(c) ==
    IF \E i \in 1..26 : Char(Upper, i) = c
    THEN Char(Lower, CHOOSE i \in 1..26 : Char(Upper, i) = c)
    ELSE c

RECURSIVE toLowerCase(_)
toLowerCase(s) ==
    IF s = "" THEN "" ELSE LowerChar(Char(s, 1)) \o toLowerCase(SubSeq(s, 2, Len(s)))

\* Number(v) for what the destructuring of split('-') gives: undefined is
\* NaN, a text of digits (white space around it aside) its value, the empty
\* text 0, any other text of the model NaN.
ToNumber(v) ==
    IF v = Undefined THEN NaN
    ELSE LET t == Trim(v.s)
         IN IF \A i \in 1..Len(t) : Char(t, i) \in Digits
            THEN Num(DigitsValue(t)) ELSE NaN

IsLeap(y) == (y % 4 = 0 /\ y % 100 # 0) \/ y % 400 = 0

DaysInMonth(y, m) ==
    IF m = 1 THEN (IF IsLeap(y) THEN 29 ELSE 28)
    ELSE IF m \in {3, 5, 8, 10} THEN 30 ELSE 31

\* The date and hour delta hours away (|delta| < 24); months count from 0.
AddHours(f, delta) ==
    LET h == f.h + delta
    IN IF h < 0
       THEN IF f.d > 1 THEN [f EXCEPT !.d = f.d - 1, !.h = h + 24]
            ELSE LET pm == IF f.m = 0 THEN 11 ELSE f.m - 1
                     py == IF f.m = 0 THEN f.y - 1 ELSE f.y
                 IN [y |-> py, m |-> pm, d |-> DaysInMonth(py, pm), h |-> h + 24]
       ELSE IF h >= 24
       THEN IF f.d < DaysInMonth(f.y, f.m) THEN [f EXCEPT !.d = f.d + 1, !.h = h - 24]
            ELSE [y |-> IF f.m = 11 THEN f.y + 1 ELSE f.y,
                  m |-> IF f.m = 11 THEN 0 ELSE f.m + 1, d |-> 1, h |-> h - 24]
       ELSE [f EXCEPT !.h = h]

\* new Date(year, monthIndex): midnight of the first of that month in the
\* host's time zone, kept as a UTC time. A year of 0..99 stands for
\* 1900 + year; a month index outside 0..11 carries into the year.
NewDate(year, monthIndex, zone) ==
    IF year = NaN \/ monthIndex = NaN THEN NaN
    ELSE LET yr == IF year.n >= 0 /\ year.n <= 99 THEN 1900 + year.n ELSE year.n
             ym == yr + (monthIndex.n \div 12)
             mn == monthIndex.n % 12
         IN AddHours([y |-> ym, m |-> mn, d |-> 1, h |-> 0], 0 - zone)

\* es-ES short month names.
MonthShort == <<"ene", "feb", "mar", "abr", "may", "jun",
                "jul", "ago", "sept", "oct", "nov", "dic">>

\* d.toLocaleDateString('es-ES', { year: 'numeric', month: 'short' }): the
\* month and the year of the date in the host's time zone.
toLocaleDateString(d, zone) ==
    IF d = NaN THEN "Invalid Date"
    ELSE LET l == AddHours(d, zone)
         IN MonthShort[l.m + 1] \o " " \o NumStr(l.y)

\* Number(month) - 1
Minus1(n) == IF n = NaN THEN NaN ELSE Num(n.n - 1)

\* formatDate (lines 198-204)
formatDate(dateStr, zone) ==
    IF dateStr = "" THEN ""
    ELSE IF toLowerCase(dateStr) = "presente" THEN "Presente"
    ELSE LET parts == Arr([k \in 1..Len(Split(dateStr, "-")) |-> Str(Split(dateStr, "-")[k])])
             year == Index(parts, 0)
             month == Index(parts, 1)
             d == NewDate(ToNumber(year), Minus1(ToNumber(month)), zone)
         IN toLocaleDateString(d, zone)

RECURSIVE CaseVariants(_)
\* The spellings of a lower-case word in every mix of letter case.
CaseVariants(w) ==
    IF w = "" THEN {""}
    ELSE LET c == Char(w, 1)
             C == Char(Upper, CHOOSE i \in 1..26 : Char(Lower, i) = c)
         IN {x \o r : x \in {c, C}, r \in CaseVariants(SubSeq(w, 2, Len(w)))}

Years == {"0000", "0050", "0099", "0100", "0999", "1970", "1999", "2000", "2024"}

Months == {"01", "02", "03", "04", "05", "06", "07", "08", "09", "10", "11", "12"}

DateInputs ==
    {""} \cup CaseVariants("presente")
         \cup {y \o "-" \o m : y \in Years, m \in Months}
         \cup {"2024", "2024-13", "2024-00", "presente ", "hoy", "2024-1-15"}

\* Hours east of UTC the host may be set to.
TimeZones == {-10, 0, 1, 14}

InitDate ==
    /\ env = Undefined
    /\ BASE = LoadBASE(env)
    /\ calls = <<>>
    /\ arg \in {Str(t) : t \in DateInputs}
    /\ ret = NotRun
    /\ tz \in TimeZones

CallFormatDate ==
    /\ ret = NotRun
    /\ ret' = Str(formatDate(arg.s, tz))
    /\ UNCHANGED <<env, BASE, calls, arg, tz>>

SpecDate == InitDate /\ [][CallFormatDate]_vars

\* The input is YYYY-MM with MM in 01..12.
IsYearMonth(s) ==
    /\ Len(s) = 7
    /\ Char(s, 5) = "-"
    /\ \A i \in {1, 2, 3, 4, 6, 7} : Char(s, i) \in Digits
    /\ DigitsValue(SubSeq(s, 6, 7)) \in 1..12

\* C10: formatDate gives '' for '', "Presente" for every spelling of
\* "presente" whatever its letter case, and for every other input YYYY-MM
\* with MM in 01..12 the short name of that same month and that same year.
C10_FormatDate ==
    ret # NotRun =>
        /\ arg.s = "" => ret.s = ""
        /\ arg.s \in CaseVariants("presente") => ret.s = "Presente"
        /\ IsYearMonth(arg.s) =>
              ret.s = MonthShort[DigitsValue(SubSeq(arg.s, 6, 7))] \o " "
                        \o NumStr(DigitsValue(SubSeq(arg.s, 1, 4)))
=============================================================================
